---------------------------- MODULE Spec2Model ----------------------------
(***************************************************************************)
(* Gold miner (src/src/main.rs): the simulation core of the game.  A miner *)
(* moves left and right, throws a hook that extends and retracts along a   *)
(* straight line, the hook collects items, and the round ends after        *)
(* GAME_DURATION.                                                          *)
(*                                                                         *)
(* Numbers.  The program computes in f32.  Every quantity of the model is  *)
(* an integer that f32 represents exactly: lengths are multiples of        *)
(* HOOK_SPEED, the miner moves in steps of 5 from SCREEN_WIDTH / 2, item   *)
(* coordinates are integers.  An angle is one of three directions whose    *)
(* cosine and sine are multiples of 1/5, so that cos(angle) * length is an *)
(* integer for every length the hook takes; the f32 rounding of cos and    *)
(* sin (at most 2^-24 relative, 4.4e-8 absolute for cos(PI/2)) is below    *)
(* the distance of any modelled tip from the edge of any modelled item     *)
(* box in the comparisons the model makes with a non-zero margin; see      *)
(* ItemPool.  Half sizes (22.5 for a rock) are avoided by comparing twice  *)
(* the distance with the size.                                             *)
(***************************************************************************)
EXTENDS Integers, FiniteSets, Sequences, TLC

(* Program constants, main.rs lines 11-18. *)
SCREEN_WIDTH == 800
MINER_WIDTH == 60
HOOK_LENGTH == 200
HOOK_SPEED == 5
ITEM_SIZE == 30
GAME_DURATION == 60
(* GameState::new: the miner starts at (SCREEN_WIDTH / 2, 50). *)
MINER_Y == 50
(* Miner::move_left / move_right: the step. *)
MINER_STEP == 5

(* Bounds of the model. *)
(* Number of items of the round (20 in the program). *)
NumItems == 2
(* The miner stays within MoveRange steps of its start position. *)
MoveRange == 1
(* Time passes in steps of TimeStep seconds, up to MaxElapsed seconds. *)
TimeStep == 60
MaxElapsed == 60
(* In the specification with the draw handler time passes up to            *)
(* LateElapsed seconds.                                                    *)
LateElapsed == 120

Abs(n) == IF n < 0 THEN -n ELSE n

(* Option<usize> as a set with at most one element. *)
None == {}
Some(i) == {i}
Unwrap(o) == CHOOSE i \in o : TRUE

(* The angles of the model: 0 (to the right), PI/2 (down, the angle of     *)
(* Hook::new) and atan2(4, 3) (down and to the right, a 3-4-5 triangle).  *)
Angles == {"0", "PI/2", "atan2(4,3)"}
(* 5 * cos(angle) and 5 * sin(angle). *)
Cos5(angle) == CASE angle = "0" -> 5 [] angle = "PI/2" -> 0 [] angle = "atan2(4,3)" -> 3
Sin5(angle) == CASE angle = "0" -> 0 [] angle = "PI/2" -> 5 [] angle = "atan2(4,3)" -> 4
(* angle.cos() * length and angle.sin() * length; length is a multiple of 5. *)
CosTimes(angle, length) == (Cos5(angle) * length) \div 5
SinTimes(angle, length) == (Sin5(angle) * length) \div 5

ItemTypes == {"Gold", "Silver", "Diamond", "Rock"}

(* Item::new *)
Item_new(item_type, x, y) ==
    [item_type |-> item_type, position |-> [x |-> x, y |-> y], collected |-> FALSE]

(* Item::value *)
value(item) ==
    CASE item.item_type = "Gold" -> 100
      [] item.item_type = "Silver" -> 50
      [] item.item_type = "Diamond" -> 200
      [] item.item_type = "Rock" -> 10

(* Item::size: ITEM_SIZE * 1.5 for a rock. *)
size(item) ==
    IF item.item_type = "Rock" THEN (ITEM_SIZE * 3) \div 2 ELSE ITEM_SIZE

(* The items GameState::new may draw: x in [ITEM_SIZE, SCREEN_WIDTH -      *)
(* ITEM_SIZE), y in [100, SCREEN_HEIGHT - ITEM_SIZE).  The pool holds an   *)
(* item that lies on the line of the hook thrown at atan2(4,3) when the    *)
(* line starts at the origin, and one that lies straight below the miner's *)
(* start position.                                                         *)
ItemPool ==
    { Item_new("Gold", 90, 120), Item_new("Rock", 400, 150) }

VARIABLES miner, hook, items, score, game_over, elapsed, last

vars == <<miner, hook, items, score, game_over, elapsed, last>>

(* Hook::new *)
Hook_new(x, y) ==
    [position |-> [x |-> x, y |-> y], angle |-> "PI/2", length |-> 0,
     state |-> "Idle", attached_item |-> None]

(* Miner::new *)
Miner_new(x, y) == [position |-> [x |-> x, y |-> y], width |-> MINER_WIDTH]

(* Hook::update as it would be without line 126: the hook comes to rest    *)
(* with the item still attached.                                           *)
Hook_update_KeepAttached(h) ==
    LET moved ==
          CASE h.state = "Idle" -> [h EXCEPT !.length = 0]
            [] h.state = "Thrown" ->
                 LET l == h.length + HOOK_SPEED
                 IN  [h EXCEPT !.length = l,
                               !.state = IF l >= HOOK_LENGTH THEN "Retracting" ELSE "Thrown"]
            [] h.state = "Retracting" ->
                 LET l == h.length - HOOK_SPEED
                 IN  IF l <= 0
                     THEN [h EXCEPT !.length = 0, !.state = "Idle"]
                     ELSE [h EXCEPT !.length = l]
    IN  [moved EXCEPT !.position = [x |-> CosTimes(moved.angle, moved.length),
                                    y |-> SinTimes(moved.angle, moved.length)]]

(* Hook::update as it would be without line 125: the retracted hook never  *)
(* comes to rest.                                                          *)
Hook_update_NeverRests(h) ==
    LET moved ==
          CASE h.state = "Idle" -> [h EXCEPT !.length = 0]
            [] h.state = "Thrown" ->
                 LET l == h.length + HOOK_SPEED
                 IN  [h EXCEPT !.length = l,
                               !.state = IF l >= HOOK_LENGTH THEN "Retracting" ELSE "Thrown"]
            [] h.state = "Retracting" ->
                 LET l == h.length - HOOK_SPEED
                 IN  IF l <= 0
                     THEN [h EXCEPT !.length = 0, !.attached_item = None]
                     ELSE [h EXCEPT !.length = l]
    IN  [moved EXCEPT !.position = [x |-> CosTimes(moved.angle, moved.length),
                                    y |-> SinTimes(moved.angle, moved.length)]]

(* Hook::update as it would be with > for >= at line 116: the hook passes  *)
(* HOOK_LENGTH by one step before it turns.                                *)
Hook_update_LateTurn(h) ==
    LET moved ==
          CASE h.state = "Idle" -> [h EXCEPT !.length = 0]
            [] h.state = "Thrown" ->
                 LET l == h.length + HOOK_SPEED
                 IN  [h EXCEPT !.length = l,
                               !.state = IF l > HOOK_LENGTH THEN "Retracting" ELSE "Thrown"]
            [] h.state = "Retracting" ->
                 LET l == h.length - HOOK_SPEED
                 IN  IF l <= 0
                     THEN [h EXCEPT !.length = 0, !.state = "Idle", !.attached_item = None]
                     ELSE [h EXCEPT !.length = l]
    IN  [moved EXCEPT !.position = [x |-> CosTimes(moved.angle, moved.length),
                                    y |-> SinTimes(moved.angle, moved.length)]]

(* Hook::update; dt is not used. *)
Hook_update(h) ==
    LET moved ==
          CASE h.state = "Idle" -> [h EXCEPT !.length = 0]
            [] h.state = "Thrown" ->
                 LET l == h.length + HOOK_SPEED
                 IN  [h EXCEPT !.length = l,
                               !.state = IF l >= HOOK_LENGTH THEN "Retracting" ELSE "Thrown"]
            [] h.state = "Retracting" ->
                 LET l == h.length - HOOK_SPEED
                 IN  IF l <= 0
                     THEN [h EXCEPT !.length = 0, !.state = "Idle", !.attached_item = None]
                     ELSE [h EXCEPT !.length = l]
    IN  [moved EXCEPT !.position = [x |-> CosTimes(moved.angle, moved.length),
                                    y |-> SinTimes(moved.angle, moved.length)]]

(* Hook::throw as it would be without the test of line 138. *)
Hook_throw_AnyState(h, angle) ==
    [h EXCEPT !.angle = angle, !.state = "Thrown", !.length = 0, !.attached_item = None]

(* Hook::throw *)
Hook_throw(h, angle) ==
    IF h.state = "Idle"
    THEN [h EXCEPT !.angle = angle, !.state = "Thrown", !.length = 0,
                   !.attached_item = None]
    ELSE h

(* The test of Hook::check_collision, line 162, on one item. *)
Collides(hook_x, hook_y, item) ==
    /\ 2 * Abs(hook_x - item.position.x) < size(item)
    /\ 2 * Abs(hook_y - item.position.y) < size(item)

(* The items the loop of Hook::check_collision would match. *)
Matching(h, its) ==
    { i \in DOMAIN its : /\ ~its[i].collected
                         /\ Collides(h.position.x, h.position.y, its[i]) }

(* The loop as it would be without the break of line 166: the last match   *)
(* overwrites the earlier ones.                                            *)
FirstMatch_LastWins(S) == CHOOSE i \in S : \A j \in S : i >= j

(* The item the loop stops at: the first match in iteration order. *)
FirstMatch(S) == CHOOSE i \in S : \A j \in S : i <= j

(* Hook::check_collision as it would be without the return of lines        *)
(* 148-150: the loop runs in every state, attached or not.                 *)
Hook_check_collision_NoGuard(h, its) ==
    IF Matching(h, its) = {}
    THEN [hook |-> h, items |-> its]
    ELSE LET i == FirstMatch(Matching(h, its))
         IN  [hook |-> [h EXCEPT !.attached_item = Some(i), !.state = "Retracting"],
              items |-> [its EXCEPT ![i].collected = TRUE]]

(* Hook::check_collision as it would be with line 164 before the test of   *)
(* line 162: every uncollected item the loop visits is marked.             *)
Hook_check_collision_MarksVisited(h, its) ==
    IF h.state # "Thrown" \/ h.attached_item # None
    THEN [hook |-> h, items |-> its]
    ELSE IF Matching(h, its) = {}
    THEN [hook |-> h, items |-> [i \in DOMAIN its |-> [its[i] EXCEPT !.collected = TRUE]]]
    ELSE LET i == FirstMatch(Matching(h, its))
         IN  [hook |-> [h EXCEPT !.attached_item = Some(i), !.state = "Retracting"],
              items |-> [j \in DOMAIN its |->
                           IF j <= i THEN [its[j] EXCEPT !.collected = TRUE] ELSE its[j]]]

(* Hook::check_collision as it would be without line 164: the item is      *)
(* attached but not marked.                                                *)
Hook_check_collision_NoMark(h, its) ==
    IF h.state # "Thrown" \/ h.attached_item # None
    THEN [hook |-> h, items |-> its]
    ELSE IF Matching(h, its) = {}
    THEN [hook |-> h, items |-> its]
    ELSE LET i == FirstMatch(Matching(h, its))
         IN  [hook |-> [h EXCEPT !.attached_item = Some(i), !.state = "Retracting"],
              items |-> its]

(* Hook::check_collision: the hook and the items after the call. *)
Hook_check_collision(h, its) ==
    IF h.state # "Thrown" \/ h.attached_item # None
    THEN [hook |-> h, items |-> its]
    ELSE IF Matching(h, its) = {}
    THEN [hook |-> h, items |-> its]
    ELSE LET i == FirstMatch(Matching(h, its))
         IN  [hook |-> [h EXCEPT !.attached_item = Some(i), !.state = "Retracting"],
              items |-> [its EXCEPT ![i].collected = TRUE]]

(* Miner::move_left as it would be with >= for > at line 193. *)
Miner_move_left_OneTooFar(m) ==
    IF 2 * m.position.x >= m.width
    THEN [m EXCEPT !.position.x = @ - MINER_STEP]
    ELSE m

(* Miner::move_left *)
Miner_move_left(m) ==
    IF 2 * m.position.x > m.width
    THEN [m EXCEPT !.position.x = @ - MINER_STEP]
    ELSE m

(* Miner::move_right *)
Miner_move_right(m) ==
    IF 2 * m.position.x < 2 * SCREEN_WIDTH - m.width
    THEN [m EXCEPT !.position.x = @ + MINER_STEP]
    ELSE m

(* GameState::update, lines 268-277: the score and the hook after the      *)
(* block that credits a released item.                                     *)
CreditScore(h, its, sc) ==
    IF h.state = "Idle" /\ h.attached_item # None
    THEN [score |-> IF Unwrap(h.attached_item) \in DOMAIN its
                    THEN sc + value(its[Unwrap(h.attached_item)])
                    ELSE sc,
          hook |-> [h EXCEPT !.attached_item = None]]
    ELSE [score |-> sc, hook |-> h]

(* GameState::update, lines 279-281: the hook position from the miner's. *)
TipPosition(m, h) ==
    [x |-> m.position.x + CosTimes(h.angle, h.length),
     y |-> m.position.y + SinTimes(h.angle, h.length)]

(* GameState::new: the miner in the middle, the hook idle at the miner,    *)
(* NumItems items, no score, the clock at 0.                               *)
GameState_new ==
    /\ miner = Miner_new(SCREEN_WIDTH \div 2, MINER_Y)
    /\ hook = Hook_new(miner.position.x, miner.position.y)
    /\ items \in [0 .. NumItems - 1 -> ItemPool]
    /\ score = 0
    /\ game_over = FALSE
    /\ elapsed = 0
    /\ last = "New"

Init == GameState_new

(* GameState::update as it would be without the return of line 259: the   *)
(* tick that ends the round still moves the hook.                          *)
GameState_update_NoReturn ==
    /\ last' = "Tick"
    /\ UNCHANGED <<miner, elapsed>>
    /\ IF game_over
       THEN UNCHANGED <<hook, items, score, game_over>>
       ELSE LET updated == Hook_update(hook)
                checked == Hook_check_collision(updated, items)
                credited == CreditScore(checked.hook, checked.items, score)
            IN  /\ hook' = [credited.hook EXCEPT
                               !.position = TipPosition(miner, credited.hook)]
                /\ items' = checked.items
                /\ score' = credited.score
                /\ game_over' = (elapsed >= GAME_DURATION)

(* GameState::update (EventHandler::update): one tick. *)
GameState_update ==
    /\ last' = "Tick"
    /\ UNCHANGED <<miner, elapsed>>
    /\ IF game_over
       THEN UNCHANGED <<hook, items, score, game_over>>
       ELSE IF elapsed >= GAME_DURATION
       THEN /\ game_over' = TRUE
            /\ UNCHANGED <<hook, items, score>>
       ELSE LET updated == Hook_update(hook)
                checked == Hook_check_collision(updated, items)
                credited == CreditScore(checked.hook, checked.items, score)
            IN  /\ hook' = [credited.hook EXCEPT
                               !.position = TipPosition(miner, credited.hook)]
                /\ items' = checked.items
                /\ score' = credited.score
                /\ UNCHANGED game_over

KeyCodes == {"Left", "Right", "Space"}

(* key_down_event as it would be without the test of lines 443-445. *)
key_down_event_NoGuard(keycode, angle) ==
    /\ last' = keycode
    /\ UNCHANGED <<items, score, game_over, elapsed>>
    /\ CASE keycode = "Left" ->
              /\ miner' = Miner_move_left(miner)
              /\ UNCHANGED hook
         [] keycode = "Right" ->
              /\ miner' = Miner_move_right(miner)
              /\ UNCHANGED hook
         [] keycode = "Space" ->
              /\ hook' = Hook_throw(hook, angle)
              /\ UNCHANGED miner

(* EventHandler::key_down_event; for Space the angle comes from the mouse. *)
key_down_event(keycode, angle) ==
    /\ last' = keycode
    /\ UNCHANGED <<items, score, game_over, elapsed>>
    /\ IF game_over
       THEN UNCHANGED <<miner, hook>>
       ELSE CASE keycode = "Left" ->
                   /\ miner' = Miner_move_left(miner)
                   /\ UNCHANGED hook
              [] keycode = "Right" ->
                   /\ miner' = Miner_move_right(miner)
                   /\ UNCHANGED hook
              [] keycode = "Space" ->
                   /\ hook' = Hook_throw(hook, angle)
                   /\ UNCHANGED miner

(* Instant::now() - start_time grows between the handlers. *)
TimePasses ==
    /\ elapsed + TimeStep <= MaxElapsed
    /\ elapsed' = elapsed + TimeStep
    /\ UNCHANGED <<miner, hook, items, score, game_over, last>>

(* The miner stays near its start position (a bound of the model). *)
InRange == Abs(miner.position.x - SCREEN_WIDTH \div 2) <= MoveRange * MINER_STEP

KeyDown == \E keycode \in KeyCodes, angle \in Angles :
              key_down_event(keycode, angle) /\ InRange'

Next ==
    \/ GameState_update
    \/ KeyDown
    \/ TimePasses

Spec == Init /\ [][Next]_vars

(***************************************************************************)
(* The scenario of the specification's section 8: one item, built with     *)
(* Item::new at (miner.x + HOOK_LENGTH / 2, miner.y), of any type; the     *)
(* only command is a throw at angle 0.  (GameState::new draws no item that *)
(* high on the screen; the scenario builds its round by hand.)             *)
(***************************************************************************)
ScenarioInit ==
    /\ miner = Miner_new(SCREEN_WIDTH \div 2, MINER_Y)
    /\ hook = Hook_new(miner.position.x, miner.position.y)
    /\ items \in [0 .. 0 -> { Item_new(t, miner.position.x + HOOK_LENGTH \div 2,
                                       miner.position.y) : t \in ItemTypes }]
    /\ score = 0
    /\ game_over = FALSE
    /\ elapsed = 0
    /\ last = "New"

ScenarioThrow == key_down_event("Space", "0")

ScenarioNext ==
    \/ GameState_update
    \/ ScenarioThrow
    \/ TimePasses

SpecScenario == ScenarioInit /\ [][ScenarioNext]_vars

(***************************************************************************)
(* Steps, told apart by the record of the last handler that ran.           *)
(***************************************************************************)
TickStep == last' = "Tick" /\ elapsed' = elapsed
KeyStep(keycode) == last' = keycode /\ elapsed' = elapsed
CommandStep == \E keycode \in KeyCodes : KeyStep(keycode)
(* A tick that gets past the two returns of GameState::update. *)
RunningTick == TickStep /\ ~game_over /\ elapsed < GAME_DURATION
(* The hook tip in screen coordinates at length len. *)
AbsoluteTip(len) ==
    [x |-> miner.position.x + CosTimes(hook.angle, len),
     y |-> miner.position.y + SinTimes(hook.angle, len)]
(* Hook::check_collision runs its loop in this tick. *)
CheckRuns ==
    /\ RunningTick
    /\ hook.state = "Thrown"
    /\ hook.attached_item = None
    /\ hook.length + HOOK_SPEED < HOOK_LENGTH

(* C1: the score is credited exactly once per collected item: on the tick  *)
(* in which the hook goes from Retracting to Idle while carrying item i    *)
(* the score grows by value(i), and it changes in no other step.           *)
C1_ScoreCreditedOnRelease ==
    [][ IF /\ TickStep
           /\ hook.state = "Retracting"
           /\ hook.attached_item # None
           /\ hook'.state = "Idle"
        THEN score' = score + value(items[Unwrap(hook.attached_item)])
        ELSE score' = score ]_vars

(* C2: in the scenario, the hook thrown at angle 0 attaches to the item on *)
(* the tick its tip enters the item's box, before it reaches HOOK_LENGTH,  *)
(* and turns to Retracting on that tick; when it is back at length 0 the   *)
(* score has grown by the item's value.                                    *)
C2_ScenarioCollects ==
    [][ /\ ( /\ CheckRuns
             /\ hook.angle = "0"
             /\ ~items[0].collected
             /\ Collides(AbsoluteTip(hook.length + HOOK_SPEED).x,
                         AbsoluteTip(hook.length + HOOK_SPEED).y, items[0]) )
           => /\ hook'.attached_item = Some(0)
              /\ hook'.state = "Retracting"
              /\ hook'.length < HOOK_LENGTH
        /\ ( /\ TickStep
             /\ hook.angle = "0"
             /\ hook.state = "Retracting"
             /\ hook'.state = "Idle" )
           => /\ hook'.length = 0
              /\ items'[0].collected
              /\ score' = value(items[0]) ]_vars

(* C3: on a tick whose collision check runs, the hook attaches to an       *)
(* uncollected item exactly when the tip, taken in screen coordinates,     *)
(* lies in that item's box; the item is then collected, its index          *)
(* recorded, and the hook Retracting.                                      *)
C3_CollisionAtAbsoluteTip ==
    [][ CheckRuns =>
          LET tip == AbsoluteTip(hook.length + HOOK_SPEED)
              hit == { i \in DOMAIN items :
                         ~items[i].collected /\ Collides(tip.x, tip.y, items[i]) }
          IN  /\ hit = {} => /\ hook'.attached_item = None
                             /\ hook'.state = "Thrown"
                             /\ items' = items
              /\ hit # {} => \E i \in hit : /\ hook'.attached_item = Some(i)
                                            /\ items'[i].collected
                                            /\ hook'.state = "Retracting" ]_vars

(* C4: when two or more uncollected items pass the test of the collision   *)
(* check in the same check, the hook attaches to the one with the lowest   *)
(* index, and the others stay uncollected.  (The check reads the position  *)
(* Hook::update has just stored.)                                          *)
C4_LowestIndexWins ==
    [][ CheckRuns =>
          LET len == hook.length + HOOK_SPEED
              pass == { i \in DOMAIN items :
                          /\ ~items[i].collected
                          /\ Collides(CosTimes(hook.angle, len),
                                      SinTimes(hook.angle, len), items[i]) }
          IN  Cardinality(pass) >= 2 =>
                \E i \in pass :
                   /\ \A j \in pass : i <= j
                   /\ hook'.attached_item = Some(i)
                   /\ items'[i].collected
                   /\ \A j \in DOMAIN items \ {i} :
                         items'[j].collected = items[j].collected ]_vars

(* C4, the case: the hook has just attached to item 0 while another        *)
(* uncollected item holds the position the check read.                     *)
C4_Witness ==
    /\ last = "Tick"
    /\ hook.state = "Retracting"
    /\ hook.attached_item = Some(0)
    /\ items[0].collected
    /\ \E j \in DOMAIN items \ {0} :
          /\ ~items[j].collected
          /\ Collides(CosTimes(hook.angle, hook.length),
                      SinTimes(hook.angle, hook.length), items[j])

(* C5: the hook length stays within [0, HOOK_LENGTH] in every state. *)
C5_LengthInRange == 0 <= hook.length /\ hook.length <= HOOK_LENGTH

(* C5, the case: the hook has reached HOOK_LENGTH and turned. *)
C5_Witness == hook.length = HOOK_LENGTH /\ hook.state = "Retracting"

(* C6: the hook holds an item only while Thrown or Retracting; an Idle     *)
(* hook holds none.  This holds between the handlers and, within a tick,   *)
(* right after Hook::update and right after Hook::check_collision.         *)
C6_InFlight(h) ==
    /\ h.attached_item # None => h.state \in {"Thrown", "Retracting"}
    /\ h.state = "Idle" => h.attached_item = None

C6_AttachedOnlyInFlight ==
    /\ C6_InFlight(hook)
    /\ C6_InFlight(Hook_update(hook))
    /\ C6_InFlight(Hook_check_collision(Hook_update(hook), items).hook)

(* C6, the case: the hook is back at Idle after it carried an item. *)
C6_Witness ==
    /\ last = "Tick"
    /\ hook.state = "Idle"
    /\ hook.attached_item = None
    /\ \E i \in DOMAIN items : items[i].collected

(* C7: game_over goes from false to true only on a tick at which           *)
(* elapsed >= GAME_DURATION, the first such tick sets it, it never goes    *)
(* back to false, and that tick and every later one leave the score, the   *)
(* miner, the hook and the items as they are.                              *)
C7_RoundEndsOnce ==
    [][ /\ game_over => game_over'
        /\ (~game_over /\ game_over') => (TickStep /\ elapsed >= GAME_DURATION)
        /\ (TickStep /\ elapsed >= GAME_DURATION) =>
              /\ game_over'
              /\ UNCHANGED <<score, miner, hook, items>>
        /\ (TickStep /\ game_over) => UNCHANGED <<score, miner, hook, items>> ]_vars

(* C7, the case: the round ended by a tick while the hook was in flight. *)
C7_Witness ==
    /\ game_over
    /\ last = "Tick"
    /\ elapsed >= GAME_DURATION
    /\ hook.state = "Thrown"
    /\ hook.length > 0

(* C8 as stated: a command delivered once elapsed >= GAME_DURATION leaves  *)
(* the miner and the hook as they are, also before any tick has run.       *)
C8_NoCommandAfterDuration ==
    [][ (CommandStep /\ elapsed >= GAME_DURATION) =>
          UNCHANGED <<miner, hook>> ]_vars

(* C8 as amended: a command delivered once elapsed >= GAME_DURATION and a  *)
(* tick has run since (game_over is set) leaves the miner and the hook as  *)
(* they are.                                                               *)
C8_NoCommandAfterOverTick ==
    [][ (CommandStep /\ elapsed >= GAME_DURATION /\ game_over) =>
          (miner' = miner /\ hook' = hook) ]_vars

(* C8, the case: move-left was delivered after the tick that ended the     *)
(* round, with room to move.                                               *)
C8_Witness ==
    /\ game_over
    /\ elapsed >= GAME_DURATION
    /\ last = "Left"
    /\ 2 * miner.position.x > miner.width

(* C9: while game_over is set, move-left, move-right and throw change      *)
(* nothing of the miner, the hook, the items and the score.                *)
C9_CommandsNoOpWhenOver ==
    [][ \A keycode \in KeyCodes :
          (KeyStep(keycode) /\ game_over) =>
             UNCHANGED <<miner, hook, items, score, game_over>> ]_vars

(* C9, the case: a throw was delivered to an idle hook after the round     *)
(* ended.                                                                  *)
C9_Witness == game_over /\ last = "Space" /\ hook.state = "Idle"

(* C10: a throw delivered while the round runs sets angle, length 0, no    *)
(* attachment and Thrown when the hook is Idle, and changes nothing of the *)
(* hook when it is Thrown or Retracting; Hook::throw gives the hook its    *)
(* argument as angle.                                                      *)
C10_ThrowOnlyWhenIdle ==
    [][ /\ (KeyStep("Space") /\ ~game_over) =>
              IF hook.state = "Idle"
              THEN \E a \in Angles :
                      hook' = [position |-> hook.position, angle |-> a, length |-> 0,
                               state |-> "Thrown", attached_item |-> None]
              ELSE hook' = hook
        /\ \A a \in Angles :
              IF hook.state = "Idle"
              THEN Hook_throw(hook, a).angle = a
              ELSE Hook_throw(hook, a) = hook ]_vars

(* C10, the case: a throw was delivered while the hook was extending. *)
C10_Witness ==
    /\ last = "Space"
    /\ ~game_over
    /\ hook.state = "Thrown"
    /\ hook.length > 0

(***************************************************************************)
(* The miner alone: the round of GameState::new under move-left and        *)
(* move-right commands only, with no bound on how far the miner goes.      *)
(***************************************************************************)
MinerMove == \E keycode \in {"Left", "Right"} : key_down_event(keycode, "PI/2")

MinerNext == MinerMove

SpecMiner == Init /\ [][MinerNext]_vars

(* C11: from the start position the miner's x stays within                 *)
(* [width / 2, SCREEN_WIDTH - width / 2] under any sequence of moves, and  *)
(* its y never changes; move-left at the left edge leaves x at width / 2.  *)
C11_MinerInBounds ==
    /\ 2 * miner.position.x >= miner.width
    /\ 2 * miner.position.x <= 2 * SCREEN_WIDTH - miner.width
    /\ miner.position.y = MINER_Y
    /\ 2 * Miner_move_left(miner).position.x >= miner.width
    /\ 2 * miner.position.x = miner.width => Miner_move_left(miner) = miner

(* C11, the case: move-left has brought the miner to the left edge. *)
C11_Witness == last = "Left" /\ 2 * miner.position.x = miner.width

(* The items that pass the test of Hook::check_collision at length len, on *)
(* the position Hook::update stores.                                       *)
PassAt(len) ==
    { i \in DOMAIN items :
        /\ ~items[i].collected
        /\ Collides(CosTimes(hook.angle, len), SinTimes(hook.angle, len), items[i]) }

(* C12: as long as no uncollected item passes the collision test, every    *)
(* tick of a thrown hook adds HOOK_SPEED to the length and the hook turns  *)
(* exactly at HOOK_LENGTH; every tick of the empty retracting hook takes   *)
(* HOOK_SPEED off and the hook comes to Idle exactly at 0; the attachment  *)
(* stays None, no item becomes collected and the score stays.              *)
C12_EmptyThrowRunsFullCourse ==
    [][ /\ ( /\ RunningTick
             /\ hook.state = "Thrown"
             /\ hook.attached_item = None
             /\ PassAt(hook.length + HOOK_SPEED) = {} )
           => /\ hook'.length = hook.length + HOOK_SPEED
              /\ hook'.state = IF hook'.length = HOOK_LENGTH
                               THEN "Retracting" ELSE "Thrown"
              /\ hook'.length <= HOOK_LENGTH
              /\ hook'.attached_item = None
              /\ hook'.angle = hook.angle
              /\ items' = items
              /\ score' = score
        /\ ( /\ RunningTick
             /\ hook.state = "Retracting"
             /\ hook.attached_item = None )
           => /\ hook'.length = hook.length - HOOK_SPEED
              /\ hook'.state = IF hook'.length = 0 THEN "Idle" ELSE "Retracting"
              /\ hook'.length >= 0
              /\ hook'.attached_item = None
              /\ hook'.angle = hook.angle
              /\ items' = items
              /\ score' = score ]_vars

(* C12, the case: a hook thrown at angle 0, where no item lies, is back at *)
(* Idle with nothing collected.                                            *)
C12_Witness ==
    /\ last = "Tick"
    /\ hook.state = "Idle"
    /\ hook.angle = "0"
    /\ hook.length = 0
    /\ hook.attached_item = None
    /\ \A i \in DOMAIN items : ~items[i].collected
    /\ score = 0

(* C13: in every state the stored hook position is the derived one,        *)
(* (miner.x + cos(angle) * length, miner.y + sin(angle) * length).         *)
C13_PositionDerived == hook.position = TipPosition(miner, hook)

(* C14: an item's collected flag only goes from false to true, and only in *)
(* a tick whose collision check attaches the hook to that item; it never   *)
(* goes back, and no item's position or type changes.                      *)
C14_CollectedOnlyByAttach ==
    [][ \A i \in DOMAIN items :
          /\ items[i].collected => items'[i].collected
          /\ (~items[i].collected /\ items'[i].collected) =>
                /\ RunningTick
                /\ hook.state = "Thrown"
                /\ hook.attached_item = None
                /\ hook'.attached_item = Some(i)
          /\ items'[i].position = items[i].position
          /\ items'[i].item_type = items[i].item_type ]_vars

(* C14, the case: the hook has just attached to an item, which is          *)
(* collected, while another item is not.                                   *)
C14_Witness ==
    /\ last = "Tick"
    /\ \E i \in DOMAIN items :
          /\ hook.attached_item = Some(i)
          /\ items[i].collected
          /\ \E j \in DOMAIN items : ~items[j].collected

(* C15: the hook state changes only from Idle to Thrown by a throw         *)
(* command, from Thrown to Retracting by a tick that brings the length to  *)
(* HOOK_LENGTH or attaches an item, and from Retracting to Idle by a tick  *)
(* that brings the length to 0; an Idle hook has length 0.                 *)
C15_HookStateCycle ==
    [][ /\ hook.state = "Idle" => hook.length = 0
        /\ hook'.state = "Idle" => hook'.length = 0
        /\ hook'.state # hook.state =>
              \/ /\ hook.state = "Idle"
                 /\ hook'.state = "Thrown"
                 /\ KeyStep("Space")
              \/ /\ hook.state = "Thrown"
                 /\ hook'.state = "Retracting"
                 /\ TickStep
                 /\ \/ hook'.length = HOOK_LENGTH
                    \/ hook.attached_item = None /\ hook'.attached_item # None
              \/ /\ hook.state = "Retracting"
                 /\ hook'.state = "Idle"
                 /\ TickStep
                 /\ hook'.length = 0 ]_vars

(* C15, the case: the hook is back at Idle after a throw at atan2(4,3). *)
C15_Witness ==
    /\ last = "Tick"
    /\ hook.state = "Idle"
    /\ hook.angle = "atan2(4,3)"
    /\ hook.length = 0

(* The position Hook::update stores for the hook's angle and length. *)
StoredTip(h) ==
    [x |-> CosTimes(h.angle, h.length), y |-> SinTimes(h.angle, h.length)]

(* C16: while the hook holds an item the collision check changes nothing   *)
(* (also when it is called on the position at which the item was           *)
(* attached): no step collects an item while attached_item is Some, no     *)
(* step collects two items, and the attachment stays the same until the    *)
(* hook is Idle; so at most one item is collected between a throw and the  *)
(* return to Idle.                                                         *)
C16_OneItemPerThrow ==
    [][ /\ hook.attached_item # None =>
              /\ items' = items
              /\ LET h == [hook EXCEPT !.position = StoredTip(hook)]
                 IN  Hook_check_collision(h, items) = [hook |-> h, items |-> items]
              /\ \/ hook'.attached_item = hook.attached_item
                 \/ hook'.attached_item = None /\ hook'.state = "Idle"
        /\ Cardinality({ i \in DOMAIN items :
                           ~items[i].collected /\ items'[i].collected }) <= 1
        /\ items' # items =>
              /\ hook.attached_item = None
              /\ hook'.attached_item # None ]_vars

(* C16, the case: the hook carries an item over a position where another   *)
(* uncollected item passes the test.                                       *)
C16_Witness ==
    /\ last = "Tick"
    /\ hook.state = "Retracting"
    /\ hook.attached_item # None
    /\ PassAt(hook.length) # {}

(* C17: an attached index is an index of the item set, and the item there  *)
(* is collected.                                                           *)
C17_AttachedIndexValid ==
    \A i \in hook.attached_item :
       /\ i \in DOMAIN items
       /\ i < Cardinality(DOMAIN items)
       /\ items[i].collected

(* C17, the case: the hook holds the last item of the set. *)
C17_Witness ==
    /\ hook.attached_item = Some(NumItems - 1)
    /\ hook.state = "Retracting"

(***************************************************************************)
(* The round with the frame loop running: ggez calls update once per       *)
(* frame, so a tick that can change the state is eventually taken.         *)
(***************************************************************************)
(* The round starts with the item on the line of atan2(4,3) first and the  *)
(* item below the miner after it.                                          *)
LiveInit ==
    /\ GameState_new
    /\ items = [i \in 0 .. NumItems - 1 |->
                  IF i = 0 THEN Item_new("Gold", 90, 120) ELSE Item_new("Rock", 400, 150)]

(* The commands: the miner moves left, and the hook is thrown straight     *)
(* down, where it attaches nothing, or at atan2(4,3), where it attaches    *)
(* the first item.                                                         *)
LiveKeyDown == \E keycode \in {"Left", "Space"}, angle \in {"PI/2", "atan2(4,3)"} :
                  key_down_event(keycode, angle) /\ InRange'

LiveNext ==
    \/ GameState_update
    \/ LiveKeyDown
    \/ TimePasses

SpecLive == LiveInit /\ [][LiveNext]_vars /\ WF_vars(GameState_update)

(* The number of ticks the hook needs at most to be back at Idle. *)
TicksLeft ==
    CASE hook.state = "Idle" -> 0
      [] hook.state = "Thrown" ->
           (HOOK_LENGTH - hook.length) \div HOOK_SPEED + HOOK_LENGTH \div HOOK_SPEED
      [] hook.state = "Retracting" -> hook.length \div HOOK_SPEED

RoundEnded == game_over \/ elapsed >= GAME_DURATION

(* C18: a hook that has left Idle is eventually back at Idle with length   *)
(* 0, unless the round ends first, attached or not and whatever the miner  *)
(* does: when a throw takes effect at most 2 * HOOK_LENGTH / HOOK_SPEED    *)
(* ticks are left, every tick of the running round takes at least one off, *)
(* no command adds any, and none are left exactly at Idle.                 *)
C18_HookReturns ==
    /\ (hook.state # "Idle") ~> ((hook.state = "Idle" /\ hook.length = 0) \/ RoundEnded)
    /\ [][ /\ TicksLeft <= 2 * (HOOK_LENGTH \div HOOK_SPEED)
           /\ (TicksLeft = 0) = (hook.state = "Idle" /\ hook.length = 0)
           /\ (RunningTick /\ hook.state # "Idle") => TicksLeft' < TicksLeft
           /\ (CommandStep /\ hook.state # "Idle") => TicksLeft' = TicksLeft
           /\ (KeyStep("Space") /\ hook.state = "Idle" /\ hook'.state # "Idle") =>
                 TicksLeft' = 2 * (HOOK_LENGTH \div HOOK_SPEED) ]_vars

(* C18, the case: the hook is back at Idle in the running round after it   *)
(* carried an item, with the miner away from its start position.           *)
C18_Witness ==
    /\ last = "Tick"
    /\ ~RoundEnded
    /\ hook.state = "Idle"
    /\ hook.length = 0
    /\ miner.position.x # SCREEN_WIDTH \div 2
    /\ \E i \in DOMAIN items : items[i].collected

(***************************************************************************)
(* The round with its draw handler.  ggez calls draw once per frame, in    *)
(* every state, also after the round is over (draw has a branch for        *)
(* game_over); the clock runs on after GAME_DURATION.  The only commands   *)
(* are throws.                                                             *)
(***************************************************************************)
(* GameState::draw, line 371: GAME_DURATION - (Instant::now() -            *)
(* start_time), a subtraction of Durations, which panics when the result   *)
(* would be negative.                                                      *)
time_left == GAME_DURATION - elapsed

(* GameState::draw (EventHandler::draw): it reads the state and writes     *)
(* none of it.                                                             *)
GameState_draw ==
    /\ last' = "Draw"
    /\ UNCHANGED <<miner, hook, items, score, game_over, elapsed>>

(* Instant::now() - start_time grows between the handlers, past            *)
(* GAME_DURATION too.                                                      *)
TimePassesLate ==
    /\ elapsed + TimeStep <= LateElapsed
    /\ elapsed' = elapsed + TimeStep
    /\ UNCHANGED <<miner, hook, items, score, game_over, last>>

Throw == \E angle \in Angles : key_down_event("Space", angle)

DrawNext ==
    \/ GameState_update
    \/ GameState_draw
    \/ Throw
    \/ TimePassesLate

SpecDraw == Init /\ [][DrawNext]_vars

(* C19: whenever a frame is drawn, the remaining time GAME_DURATION -      *)
(* elapsed that draw computes is not negative.                             *)
DrawStep == last' = "Draw" /\ elapsed' = elapsed

C19_TimeLeftNonNegative == [][ DrawStep => time_left >= 0 ]_vars

(***************************************************************************)
(* The round with an item at the end of the hook's reach: the position     *)
(* Hook::update stores for atan2(4,3) lies in the box of the item at       *)
(* (130, 172) at length HOOK_LENGTH (120, 160) and at no shorter length    *)
(* ((117, 156) at 195).  The only commands are throws.                     *)
(***************************************************************************)
ReachPool ==
    { Item_new("Gold", 130, 172), Item_new("Gold", 90, 120) }

ReachInit ==
    /\ miner = Miner_new(SCREEN_WIDTH \div 2, MINER_Y)
    /\ hook = Hook_new(miner.position.x, miner.position.y)
    /\ items \in [0 .. NumItems - 1 -> ReachPool]
    /\ score = 0
    /\ game_over = FALSE
    /\ elapsed = 0
    /\ last = "New"

ReachNext ==
    \/ GameState_update
    \/ Throw
    \/ TimePasses

SpecReach == ReachInit /\ [][ReachNext]_vars

(* A running tick of the unattached thrown hook. *)
ExtendingTick ==
    /\ RunningTick
    /\ hook.state = "Thrown"
    /\ hook.attached_item = None

(* C20 as stated: the collision test is run at every length the extending  *)
(* hook reaches, HOOK_LENGTH included: when an uncollected item passes it  *)
(* at the length the tick brings, the hook attaches on that tick.          *)
C20_TestedUpToFullLength ==
    [][ ( /\ ExtendingTick
          /\ hook.length + HOOK_SPEED <= HOOK_LENGTH
          /\ PassAt(hook.length + HOOK_SPEED) # {} )
        => hook'.attached_item # None ]_vars

(* C20 as amended: the test is run at every length below HOOK_LENGTH the   *)
(* extending hook reaches; on the tick that brings the length to           *)
(* HOOK_LENGTH the hook has turned before the test and attaches nothing,   *)
(* whatever lies at its tip.                                               *)
C20_TestedBelowFullLength ==
    [][ ExtendingTick =>
          LET len == hook.length + HOOK_SPEED
          IN  IF len < HOOK_LENGTH
              THEN /\ PassAt(len) # {} =>
                        /\ hook'.attached_item # None
                        /\ hook'.attached_item \subseteq PassAt(len)
                        /\ hook'.state = "Retracting"
                        /\ hook'.length = len
                   /\ PassAt(len) = {} =>
                        /\ hook'.attached_item = None
                        /\ hook'.state = "Thrown"
              ELSE /\ hook'.attached_item = None
                   /\ hook'.state = "Retracting"
                   /\ hook'.length = HOOK_LENGTH
                   /\ items' = items ]_vars

(* C20, the case: the hook has reached HOOK_LENGTH with an uncollected     *)
(* item at its tip and has turned without it.                              *)
C20_Witness ==
    /\ last = "Tick"
    /\ hook.length = HOOK_LENGTH
    /\ hook.state = "Retracting"
    /\ hook.attached_item = None
    /\ PassAt(HOOK_LENGTH) # {}

=============================================================================
